---- MODULE Spec2Model ----
(***************************************************************************)
(* examples/pepseption/hello.py: one blocking requests.get to a fixed URL, *)
(* then two prints (the status code, the X-RateLimit-Remaining header or   *)
(* 'N/A').  The model follows the script statement by statement; the       *)
(* network and the server are the environment.                             *)
(***************************************************************************)
EXTENDS Integers, Sequences, FiniteSets, TLC

VARIABLES
    pc,        \* position of the script: start, waiting, got, printed1,
               \* printed2, raised, done, failed
    sent,      \* the HTTP requests issued so far by this execution
    response,  \* the name `response` (NoResponse while unbound)
    stdout,    \* the lines written to standard output by this execution
    stderr,    \* the lines written to the error stream by this execution
    outcome,   \* process outcome: none (running), completed (exit 0),
               \* failed (non-zero exit)
    runs,      \* number of executions started so far
    prev       \* what the previous execution received and wrote

vars == <<pc, sent, response, stdout, stderr, outcome, runs, prev>>

---------------------------------------------------------------------------
(* Bounds *)

\* number of executions of the script in a row (RunsSpec)
MaxRuns == 2

---------------------------------------------------------------------------
(* Strings as the code has them.  Header names are sequences of characters *)
(* so that lower-casing is computed, not assumed.                          *)

URL == "https://api.github.com"

\* 'X-RateLimit-Remaining', the key of line 12
RateLimitKey ==
    <<"X","-","R","a","t","e","L","i","m","i","t","-",
      "R","e","m","a","i","n","i","n","g">>

\* the default of line 12
Placeholder == "N/A"

UpperChars ==
    <<"A","B","C","D","E","F","G","H","I","J","K","L","M",
      "N","O","P","Q","R","S","T","U","V","W","X","Y","Z">>

LowerChars ==
    <<"a","b","c","d","e","f","g","h","i","j","k","l","m",
      "n","o","p","q","r","s","t","u","v","w","x","y","z">>

\* str.lower() on one ASCII character
LowerChar(c) ==
    IF \E i \in 1..Len(UpperChars) : UpperChars[i] = c
    THEN LowerChars[CHOOSE i \in 1..Len(UpperChars) : UpperChars[i] = c]
    ELSE c

\* str.lower() on a header name
Lower(name) == [i \in 1..Len(name) |-> LowerChar(name[i])]

---------------------------------------------------------------------------
(* The environment: what the endpoint may answer. *)

\* the same header name as sent by servers in other letter-casings
RateLimitKeyLowerCase ==
    <<"x","-","r","a","t","e","l","i","m","i","t","-",
      "r","e","m","a","i","n","i","n","g">>

RateLimitKeyUpperCase ==
    <<"X","-","R","A","T","E","L","I","M","I","T","-",
      "R","E","M","A","I","N","I","N","G">>

\* another header of the same family, which the script does not read
OtherKey ==
    <<"X","-","R","a","t","e","L","i","m","i","t","-","L","i","m","i","t">>

RateLimitValues == {"42", "0", ""}

\* the items a server may send under the rate-limit name, in any casing
RateLimitItems ==
    {RateLimitKey, RateLimitKeyLowerCase, RateLimitKeyUpperCase}
        \X RateLimitValues

OtherItems == {<<OtherKey, "60">>}

\* response.headers is a case-insensitive mapping: it holds at most one
\* item per lower-cased name, each with the name as the server sent it
HeaderDicts ==
    {R \cup O : R \in {{}} \cup {{i} : i \in RateLimitItems},
                O \in {{}} \cup {{i} : i \in OtherItems}}

StatusCodes == {200, 403, 500}

Responses == [status_code : StatusCodes, headers : HeaderDicts]

\* the name `response` before line 10 has bound it
NoResponse == [status_code |-> 0, headers |-> {}]

\* no execution has finished yet
NoRun == [response |-> NoResponse, stdout |-> <<>>, outcome |-> "none"]

---------------------------------------------------------------------------
(* The expressions of lines 10-12. *)

\* requests.get("https://api.github.com"): method GET, the fixed URL,
\* no body and no headers passed by the script
TheRequest ==
    [method |-> "GET", url |-> URL, body |-> "", headers |-> {}]

\* variant: the lookup compares the names as they were sent
HeadersGetCaseSensitive(headers, key, default) ==
    IF \E h \in headers : h[1] = key
    THEN (CHOOSE h \in headers : h[1] = key)[2]
    ELSE default

\* variant: the default is not passed on, a missing key gives None
HeadersGetNoDefault(headers, key, default) ==
    IF \E h \in headers : Lower(h[1]) = Lower(key)
    THEN (CHOOSE h \in headers : Lower(h[1]) = Lower(key))[2]
    ELSE "None"

\* variant: `headers.get(key) or default`, an empty value gives the default
HeadersGetOrDefault(headers, key, default) ==
    IF \E h \in headers : Lower(h[1]) = Lower(key) /\ h[2] # ""
    THEN (CHOOSE h \in headers : Lower(h[1]) = Lower(key))[2]
    ELSE default

\* response.headers.get(key, default): the value stored under the
\* lower-cased key, the default when there is none
HeadersGet(headers, key, default) ==
    IF \E h \in headers : Lower(h[1]) = Lower(key)
    THEN (CHOOSE h \in headers : Lower(h[1]) = Lower(key))[2]
    ELSE default

\* variant: the reason phrase is printed for a 200
StatusLineReason(resp) ==
    "GitHub API Status: " \o
        (IF resp.status_code = 200 THEN "OK" ELSE ToString(resp.status_code))

\* f"GitHub API Status: {response.status_code}"
StatusLine(resp) == "GitHub API Status: " \o ToString(resp.status_code)

\* f"Rate Limit: {response.headers.get('X-RateLimit-Remaining', 'N/A')}"
RateLimitLine(resp) ==
    "Rate Limit: " \o HeadersGet(resp.headers, RateLimitKey, Placeholder)

---------------------------------------------------------------------------
(* One execution of the script. *)

Init ==
    /\ pc = "start"
    /\ sent = <<>>
    /\ response = NoResponse
    /\ stdout = <<>>
    /\ stderr = <<>>
    /\ outcome = "none"
    /\ runs = 1
    /\ prev = NoRun

\* line 10, the call: the request goes out and the script blocks
IssueGet ==
    /\ pc = "start"
    /\ sent' = Append(sent, TheRequest)
    /\ pc' = "waiting"
    /\ UNCHANGED <<response, stdout, stderr, outcome, runs, prev>>

\* variant: response.raise_for_status() after the call
GetReturnsRaiseForStatus ==
    /\ pc = "waiting"
    /\ \E r \in Responses :
          /\ response' = r
          /\ pc' = IF r.status_code >= 400 THEN "raised" ELSE "got"
    /\ UNCHANGED <<sent, stdout, stderr, outcome, runs, prev>>

\* line 10, the call returns: any response, whatever its status code,
\* is bound to `response`
GetReturns ==
    /\ pc = "waiting"
    /\ \E r \in Responses : response' = r
    /\ pc' = "got"
    /\ UNCHANGED <<sent, stdout, stderr, outcome, runs, prev>>

\* variant: a failed call is issued again
GetRaisesRetry ==
    /\ pc = "waiting"
    /\ sent' = Append(sent, TheRequest)
    /\ pc' = "waiting"
    /\ UNCHANGED <<response, stdout, stderr, outcome, runs, prev>>

\* line 10, the call raises (connection error, DNS failure, timeout,
\* malformed response): nothing is bound, the exception propagates
GetRaises ==
    /\ pc = "waiting"
    /\ pc' = "raised"
    /\ UNCHANGED <<sent, response, stdout, stderr, outcome, runs, prev>>

\* variant: the exception is caught and a fallback line is printed
UnhandledCaught ==
    /\ pc = "raised"
    /\ stdout' = Append(stdout, "Rate Limit: " \o Placeholder)
    /\ outcome' = "completed"
    /\ pc' = "done"
    /\ UNCHANGED <<sent, response, stderr, runs, prev>>

\* no try/except around line 10: the interpreter reports the exception on
\* the error stream and the process ends with a non-zero status
Unhandled ==
    /\ pc = "raised"
    /\ stderr' = Append(stderr, "Traceback (most recent call last):")
    /\ outcome' = "failed"
    /\ pc' = "failed"
    /\ UNCHANGED <<sent, response, stdout, runs, prev>>

\* variant: lines 11 and 12 in the other order
Print1RateLimitFirst ==
    /\ pc = "got"
    /\ stdout' = Append(stdout, RateLimitLine(response))
    /\ pc' = "printed1"
    /\ UNCHANGED <<sent, response, stderr, outcome, runs, prev>>

\* line 11
Print1 ==
    /\ pc = "got"
    /\ stdout' = Append(stdout, StatusLine(response))
    /\ pc' = "printed1"
    /\ UNCHANGED <<sent, response, stderr, outcome, runs, prev>>

\* line 12
Print2 ==
    /\ pc = "printed1"
    /\ stdout' = Append(stdout, RateLimitLine(response))
    /\ pc' = "printed2"
    /\ UNCHANGED <<sent, response, stderr, outcome, runs, prev>>

\* variant: the script polls, going back to the call
ExitLoops ==
    /\ pc = "printed2"
    /\ pc' = "start"
    /\ UNCHANGED <<sent, response, stdout, stderr, outcome, runs, prev>>

\* end of the file: the process ends with status zero
Exit ==
    /\ pc = "printed2"
    /\ outcome' = "completed"
    /\ pc' = "done"
    /\ UNCHANGED <<sent, response, stdout, stderr, runs, prev>>

Next ==
    \/ IssueGet
    \/ GetReturns
    \/ GetRaises
    \/ Unhandled
    \/ Print1
    \/ Print2
    \/ Exit

Spec == Init /\ [][Next]_vars

\* The script's own statements always get to run; the network may keep
\* the call blocked for ever (line 10 passes no timeout).
FairSpec ==
    /\ Init
    /\ [][Next]_vars
    /\ WF_vars(IssueGet)
    /\ WF_vars(Unhandled)
    /\ WF_vars(Print1)
    /\ WF_vars(Print2)
    /\ WF_vars(Exit)

---------------------------------------------------------------------------
(* Running the script again: a new process, which starts from the state    *)
(* of Init (the script reads and writes no file and no environment).       *)

\* variant: the output of the previous execution is kept
RerunKeepsStdout ==
    /\ outcome # "none"
    /\ runs < MaxRuns
    /\ prev' = [response |-> response, stdout |-> stdout, outcome |-> outcome]
    /\ runs' = runs + 1
    /\ pc' = "start"
    /\ sent' = <<>>
    /\ response' = NoResponse
    /\ stderr' = <<>>
    /\ outcome' = "none"
    /\ UNCHANGED stdout

Rerun ==
    /\ outcome # "none"
    /\ runs < MaxRuns
    /\ prev' = [response |-> response, stdout |-> stdout, outcome |-> outcome]
    /\ runs' = runs + 1
    /\ pc' = "start"
    /\ sent' = <<>>
    /\ response' = NoResponse
    /\ stdout' = <<>>
    /\ stderr' = <<>>
    /\ outcome' = "none"

NextRuns ==
    \/ Next
    \/ Rerun

RunsSpec == Init /\ [][NextRuns]_vars

---------------------------------------------------------------------------
(* Properties.  The expected lines are written out here from the templates *)
(* and the header items, not through the operators above.                  *)

\* both prints have run
Printed == pc \in {"printed2", "done"}

\* two header names that differ at most in the case of their letters
SameNameIgnoringCase(a, b) ==
    /\ Len(a) = Len(b)
    /\ \A i \in 1..Len(a) :
          \/ a[i] = b[i]
          \/ \E j \in 1..Len(UpperChars) :
                {a[i], b[i]} = {UpperChars[j], LowerChars[j]}

\* the items of the response sent under the rate-limit name, in any casing
RateLimitSent(resp) ==
    {h \in resp.headers : SameNameIgnoringCase(h[1], RateLimitKey)}

DecimalOf(code) ==
    CASE code = 200 -> "200"
      [] code = 403 -> "403"
      [] code = 500 -> "500"

\* C1: when the GET returns status s and the header X-RateLimit-Remaining
\* with value v, standard output is exactly the two lines
\* 'GitHub API Status: <s>' and 'Rate Limit: <v>', in this order; status
\* 200 and value 42 give 'GitHub API Status: 200' then 'Rate Limit: 42'.
C1_TwoLines ==
    Printed =>
        /\ \A h \in response.headers :
              h[1] = RateLimitKey =>
                 stdout = <<"GitHub API Status: " \o DecimalOf(response.status_code),
                            "Rate Limit: " \o h[2]>>
        /\ (response.status_code = 200
              /\ <<RateLimitKey, "42">> \in response.headers) =>
                 stdout = <<"GitHub API Status: 200", "Rate Limit: 42">>

C1_Witness ==
    /\ pc = "done"
    /\ response.status_code = 200
    /\ <<RateLimitKey, "42">> \in response.headers
    /\ stdout = <<"GitHub API Status: 200", "Rate Limit: 42">>

\* C2: when the response carries no rate-limit header, the second line is
\* 'Rate Limit: N/A' and the first is still 'GitHub API Status: <s>'.
C2_MissingHeader ==
    (Printed /\ RateLimitSent(response) = {}) =>
        /\ Len(stdout) = 2
        /\ stdout[1] = "GitHub API Status: " \o DecimalOf(response.status_code)
        /\ stdout[2] = "Rate Limit: N/A"

C2_Witness ==
    /\ pc = "done"
    /\ response.status_code = 200
    /\ response.headers = {<<OtherKey, "60">>}
    /\ stdout = <<"GitHub API Status: 200", "Rate Limit: N/A">>

\* the rate-limit line as the headers alone determine it
RateLimitLineOf(headers) ==
    IF \E h \in headers : SameNameIgnoringCase(h[1], RateLimitKey)
    THEN "Rate Limit: "
            \o (CHOOSE h \in headers : SameNameIgnoringCase(h[1], RateLimitKey))[2]
    ELSE "Rate Limit: N/A"

\* C3: no status code is special-cased: once a response with any status s
\* (403 and 500 as much as 200) is received the run never takes the failure
\* path, and it ends with exit zero having printed 'GitHub API Status: <s>'
\* and the rate-limit line that the headers alone determine.
C3_NoSpecialCasing ==
    /\ response # NoResponse =>
          /\ pc \in {"got", "printed1", "printed2", "done"}
          /\ outcome # "failed"
          /\ stderr = <<>>
    /\ pc = "done" =>
          /\ response # NoResponse
          /\ outcome = "completed"
          /\ stdout = <<"GitHub API Status: " \o DecimalOf(response.status_code),
                        RateLimitLineOf(response.headers)>>

C3_Witness ==
    /\ pc = "done"
    /\ outcome = "completed"
    /\ response.status_code = 403
    /\ response.headers = {}
    /\ stdout = <<"GitHub API Status: 403", "Rate Limit: N/A">>

\* the call of line 10 has ended without binding a response
CallFailed == sent # <<>> /\ pc # "waiting" /\ response = NoResponse

\* C4: when the network call fails the failure is not caught: in every
\* state from the failure on, standard output is empty, and the process
\* ends in the failed outcome with a diagnostic on the error stream.
C4_FailureWritesNothing ==
    /\ CallFailed =>
          /\ pc \in {"raised", "failed"}
          /\ stdout = <<>>
          /\ outcome # "completed"
    /\ pc \in {"raised", "failed"} => CallFailed
    /\ pc = "raised" => ENABLED Unhandled
    /\ pc = "failed" => (outcome = "failed" /\ stderr # <<>>)
    /\ outcome = "failed" => (pc = "failed" /\ stdout = <<>>)

C4_Witness ==
    /\ pc = "failed"
    /\ outcome = "failed"
    /\ stdout = <<>>
    /\ Len(sent) = 1

\* C5: an execution issues one HTTP GET, to https://api.github.com, with no
\* body and no headers of its own: never more than one request, exactly
\* one from the call on, whether the call returns or fails (no retry).
C5_OneRequest ==
    /\ Len(sent) <= 1
    /\ pc # "start" => Len(sent) = 1
    /\ \A i \in 1..Len(sent) :
          /\ sent[i].method = "GET"
          /\ sent[i].url = "https://api.github.com"
          /\ sent[i].body = ""
          /\ sent[i].headers = {}

C5_Witness ==
    /\ outcome = "failed"
    /\ sent = <<[method |-> "GET", url |-> "https://api.github.com",
                 body |-> "", headers |-> {}]>>

\* C6: two executions that get the same response (or both get none) write
\* the same standard output: nothing is carried from one run to the next.
C6_SameResponseSameOutput ==
    (prev.outcome # "none" /\ outcome # "none" /\ prev.response = response) =>
        /\ stdout = prev.stdout
        /\ outcome = prev.outcome

C6_Witness ==
    /\ runs = 2
    /\ prev.outcome = "completed"
    /\ outcome = "completed"
    /\ response # NoResponse
    /\ prev.response = response
    /\ Len(stdout) = 2
    /\ stdout = prev.stdout

\* C7: the lifecycle goes from 'not yet finished' to one of the terminal
\* outcomes completed or failed and stays there: a reached outcome never
\* changes, the script never goes back to before the request, and once the
\* call has returned or failed an outcome is eventually reached.
C7_Lifecycle ==
    /\ [](outcome \in {"none", "completed", "failed"})
    /\ [](outcome # "none" <=> pc \in {"done", "failed"})
    /\ [][outcome # "none" => (outcome' = outcome /\ pc' = pc)]_vars
    /\ [][pc' = "start" => pc = "start"]_vars
    /\ (pc \in {"got", "raised"}) ~> (outcome \in {"completed", "failed"})

C7_Witness ==
    /\ pc = "done"
    /\ outcome = "completed"
    /\ Len(sent) = 1
    /\ Len(stdout) = 2

\* C8: nothing is written to standard output before the response has been
\* received, and the status line comes before the rate-limit line:
\* standard output is always a prefix of <<status line, rate-limit line>>.
C8_OutputOrder ==
    /\ Len(stdout) <= 2
    /\ stdout # <<>> =>
          /\ response # NoResponse
          /\ pc \in {"printed1", "printed2", "done"}
          /\ stdout[1] = "GitHub API Status: " \o DecimalOf(response.status_code)
    /\ Len(stdout) = 2 => stdout[2] = RateLimitLineOf(response.headers)
    /\ pc \in {"start", "waiting", "got"} => stdout = <<>>
    /\ pc = "printed1" => Len(stdout) = 1

C8_Witness ==
    /\ pc = "printed1"
    /\ response.status_code = 500
    /\ stdout = <<"GitHub API Status: 500">>

\* C9: the header is looked up ignoring case: a header sent under any
\* casing of X-RateLimit-Remaining gives 'Rate Limit: <its value>', and
\* the placeholder line is printed only when no such header was sent.
C9_CaseInsensitiveLookup ==
    Printed =>
        /\ \A h \in RateLimitSent(response) : stdout[2] = "Rate Limit: " \o h[2]
        /\ stdout[2] = "Rate Limit: N/A" => RateLimitSent(response) = {}

C9_Witness ==
    /\ pc = "done"
    /\ <<RateLimitKeyLowerCase, "42">> \in response.headers
    /\ stdout[2] = "Rate Limit: 42"

\* C10: 'N/A' is substituted if and only if the header is absent; a header
\* present with the value '' or '0' is printed as it is ('Rate Limit: ',
\* 'Rate Limit: 0').
C10_PlaceholderIffAbsent ==
    Printed =>
        /\ stdout[2] = "Rate Limit: N/A" <=> RateLimitSent(response) = {}
        /\ (\E h \in RateLimitSent(response) : h[2] = "") =>
              stdout[2] = "Rate Limit: "
        /\ (\E h \in RateLimitSent(response) : h[2] = "0") =>
              stdout[2] = "Rate Limit: 0"

C10_Witness ==
    /\ pc = "done"
    /\ <<RateLimitKey, "">> \in response.headers
    /\ stdout[2] = "Rate Limit: "

====
